---- MODULE Spec2Model ----
(***************************************************************************)
(* Model of perfscale_regression_ci/scripts/scalability/                   *)
(* replace_master_nodes.py: the one-by-one replacement of master nodes.    *)
(* The script is a single sequential program; every step of the model is   *)
(* one call into utils.ocp_utils (the cluster gateway) or one block of     *)
(* script statements between two such calls.  Names of machinesets are     *)
(* sequences of string tokens, so that the substring tests of the script   *)
(* are computed and not assumed.                                           *)
(***************************************************************************)
EXTENDS Integers, Sequences, FiniteSets, TLC

(* ---- bounds of the model ---- *)
NumSources == 3
MaxReplicas == 2
MaxPre == 2
MaxRuns == 2
MaxInterventions == 1

(* ---- values ---- *)
\* Python's None as returned by get_machine_replicas for an unknown count.
None == 0 - 1

NoName == << >>

\* os.environ['CLUSTER_NAME']
CLUSTER_NAME == <<"c">>

\* line 21
new_machineset_name == CLUSTER_NAME \o <<"-master-new">>

\* line 22
final_machine_set_path == <<"machinesets/">> \o new_machineset_name

\* "infra" as a substring of a name (line 54)
InfraMark == <<"infra">>

\* names as `oc get machinesets -A -o name` prints them
ListedName(pool) == <<"machineset.machine.openshift.io/">> \o pool

SourcePool(k) == CLUSTER_NAME \o <<"-master-", ToString(k)>>

InfraPool == CLUSTER_NAME \o <<"-", "infra", "-a">>

\* an old master machineset whose name starts with the name of the new one
LookalikePool == new_machineset_name \o <<"-b">>

SourcePools == {SourcePool(k) : k \in 1..NumSources}

Pools == SourcePools \cup {new_machineset_name, InfraPool, LookalikePool}

\* the pool a path or a listed name designates: the part after the resource prefix
PoolOf(path) == Tail(path)

\* Python's `needle in hay` on strings, here on token sequences
Contains(needle, hay) ==
    \E k \in 0..(Len(hay) - Len(needle)) : SubSeq(hay, k + 1, k + Len(needle)) = needle

\* sys.argv[2] as passed by the caller
Argv2Values == {"2", "x"}

Digits == <<"0", "1", "2", "3", "4", "5", "6", "7", "8", "9">>

\* whether int(s) succeeds (line 17)
IsInt(s) == \E d \in 1..Len(Digits) : Digits[d] = s

\* int(s) (line 17)
ToInt(s) == (CHOOSE d \in 1..Len(Digits) : Digits[d] = s) - 1

VARIABLES
    pc,                                 \* position of the script
    declared,                           \* cluster: declared replica count of every pool
    exists,                             \* cluster: the pools that exist
    argv2,                              \* sys.argv[2]
    target_master_replicas,             \* line 17
    current_new_replicas,               \* lines 34, 39, 87
    all_machinesets_names,              \* line 45
    msIdx,                              \* position of the loop of line 49
    original_master_machinesets_info,   \* line 46, the roster
    total_current_old_masters,          \* line 47
    num_replacement_cycles,             \* line 75
    i,                                  \* loop variable of line 82
    old_machineset_to_decrement,        \* line 95: index into the roster, 0 for None
    log,                                \* history: the gateway calls made, in order
    abortedAt,                          \* history: the step whose call raised
    readNew,                            \* history: what line 34 returned
    initialInfo,                        \* history: the roster as discovery left it
    cycleStartNew,                      \* history: current_new_replicas at the start of the cycle
    cycleStartInfo,                     \* history: the roster at the start of the cycle
    earlyExit,                          \* history: the break of line 103 was taken
    run,                                \* history: the number of the run (a re-run follows an abort)
    firstTotal,                         \* history: total_current_old_masters of the first run
    firstInfo,                          \* history: the roster discovered by the first run
    lowered                             \* history: the pools an operator lowered by hand

vars == <<pc, declared, exists, argv2, target_master_replicas, current_new_replicas,
          all_machinesets_names, msIdx, original_master_machinesets_info,
          total_current_old_masters, num_replacement_cycles, i,
          old_machineset_to_decrement, log, abortedAt, readNew, initialInfo,
          cycleStartNew, cycleStartInfo, earlyExit,
          run, firstTotal, firstInfo, lowered>>

scriptVars == <<argv2, target_master_replicas>>

planVars == <<all_machinesets_names, msIdx, original_master_machinesets_info,
              total_current_old_masters, num_replacement_cycles, initialInfo>>

envVars == <<run, firstTotal, firstInfo, lowered>>

cycleVars == <<i, old_machineset_to_decrement, cycleStartNew, cycleStartInfo, earlyExit>>

(* ---- the cluster gateway (utils.ocp_utils) ---- *)

Ev(op, pool, n, ok) == [op |-> op, pool |-> pool, n |-> n, ok |-> ok]

\* oc get machinesets -A -o name, split at newlines: every pool, the target
\* and the infra pool included, and the empty line after the last newline
ListPools ==
    <<ListedName(SourcePool(1)), ListedName(new_machineset_name), ListedName(InfraPool)>>
    \o [k \in 1..(NumSources - 1) |-> ListedName(SourcePool(k + 1))]
    \o <<ListedName(LookalikePool), NoName>>

\* get_machine_replicas: the declared count, or None when it is unknown (the
\* read failed); the history records such a read as not ok
ReplicaReadResults(path) == {declared[PoolOf(path)], None}

\* scale_machine_replicas: the declared count of the pool becomes n
SetReplicaCount(d, path, n) == [d EXCEPT ![PoolOf(path)] = n]

\* oc apply of the manifest: the pool exists afterwards, its running state is kept
ApplyPoolManifest(ex) == ex \cup {new_machineset_name}

(* ---- the script ---- *)

\* variant: a failed drain wait of the loop is caught and the script goes on
OnFailure_WaitDownIgnored(at, next) == IF at = "waitDown" THEN next ELSE "aborted"

\* variant: a failed health check after the scale-up is caught and the script goes on
OnFailure_HcUpIgnored(at, next) == IF at = "hcUp" THEN next ELSE "aborted"

\* lines 8-118 have no try/except around a gateway call except lines 57-64:
\* an exception ends the script where it is raised
OnFailure_Hc0Ignored(at, next) == IF at = "hc0" THEN next ELSE "aborted"

OnFailure(at, next) == "aborted"

\* variant: the unknown count is not tested
NeedsReset_NoNone(r) == r > 0

\* line 35
NeedsReset(r) == r = None \/ r > 0

\* line 54
SkipPool(ms_name) == Contains(new_machineset_name, ms_name) \/ Contains(InfraMark, ms_name)

\* line 58: int() of a count returns it, int(None) raises TypeError (caught at line 62)
IntOk(r) == r # None

\* line 60
RosterEntry(ms_name, replicas_count) == [name |-> ms_name, current_replicas |-> replicas_count]

\* variant: one cycle too many
NumCycles_OneMore(total) == total + 1

\* variant: the number of cycles is the requested count
NumCycles_Requested(total) == target_master_replicas

\* line 75
NumCycles(total) == total

\* variant: the test of line 66 is missing
PlanOutcome_NoEmptyCheck(info, cycles) == IF cycles = 0 THEN "exit0" ELSE "loopHead"

\* lines 66-79
PlanOutcome(info, cycles) ==
    IF info = << >> THEN "exit1"
    ELSE IF cycles = 0 THEN "exit0"
    ELSE "loopHead"

\* variant: the scan keeps the last entry with replicas left (no break)
FirstActive_Last(info) ==
    IF \E k \in 1..Len(info) : info[k].current_replicas > 0
    THEN CHOOSE k \in 1..Len(info) :
            /\ info[k].current_replicas > 0
            /\ \A j \in (k + 1)..Len(info) : info[j].current_replicas = 0
    ELSE 0

\* variant: the scan takes the entry with the most replicas left
FirstActive_Largest(info) ==
    IF \E k \in 1..Len(info) : info[k].current_replicas > 0
    THEN CHOOSE k \in 1..Len(info) :
            /\ \A j \in 1..Len(info) : info[j].current_replicas <= info[k].current_replicas
            /\ \A j \in 1..(k - 1) : info[j].current_replicas < info[k].current_replicas
    ELSE 0

\* lines 95-99: the index of the first roster entry with replicas left, 0 for None
FirstActive(info) ==
    IF \E k \in 1..Len(info) : info[k].current_replicas > 0
    THEN CHOOSE k \in 1..Len(info) :
            /\ info[k].current_replicas > 0
            /\ \A j \in 1..(k - 1) : info[j].current_replicas = 0
    ELSE 0

\* variant: the internal tracking is not updated
Decremented_Forgotten(info, k) == info

\* line 106
Decremented(info, k) == [info EXCEPT ![k].current_replicas = @ - 1]

\* variant: the count sent is one less than the tracked count
new_old_replicas_count_OneLess ==
    original_master_machinesets_info[old_machineset_to_decrement].current_replicas - 1

\* line 107
new_old_replicas_count == original_master_machinesets_info[old_machineset_to_decrement].current_replicas

\* line 105
old_ms_name == original_master_machinesets_info[old_machineset_to_decrement].name

\* variant: the readiness wait of line 90 is missing
AfterScaleUp_NoWait == "hcUp"

\* variant: the counter is not incremented
Incremented_Forgotten(replicas) == replicas

\* line 87
Incremented(replicas) == replicas + 1

\* the statement that follows each gateway call of the loop body
AfterScaleUp == "waitUp"

\* variant: the health check of line 92 is missing
AfterWaitUp_NoCheck == "pick"

AfterWaitUp == "hcUp"

AfterHcUp == "pick"

AfterScaleDown == "waitDown"

AfterWaitDown == "hcDown"

RECURSIVE SumReplicas(_)
SumReplicas(info) ==
    IF info = << >> THEN 0
    ELSE info[1].current_replicas + SumReplicas(Tail(info))

\* a gateway call returned (ok) or raised
Goto(ok, next, at) ==
    /\ pc' = IF ok THEN next ELSE OnFailure(at, next)
    /\ abortedAt' = IF ok THEN abortedAt ELSE at

Init ==
    /\ pc = "hc0"
    /\ exists \in {Pools, Pools \ {new_machineset_name}}
    /\ declared \in [Pools -> 0..MaxReplicas \cup 0..MaxPre]
    /\ declared[new_machineset_name] \in 0..MaxPre
    /\ new_machineset_name \notin exists => declared[new_machineset_name] = 0
    /\ declared[InfraPool] = 1
    /\ declared[LookalikePool] = 1
    /\ \A p \in SourcePools : declared[p] \in 0..MaxReplicas
    /\ argv2 \in Argv2Values
    /\ target_master_replicas = 0
    /\ current_new_replicas = None
    /\ all_machinesets_names = << >>
    /\ msIdx = 0
    /\ original_master_machinesets_info = << >>
    /\ total_current_old_masters = 0
    /\ num_replacement_cycles = 0
    /\ i = 0
    /\ old_machineset_to_decrement = 0
    /\ log = << >>
    /\ abortedAt = "none"
    /\ readNew = None
    /\ initialInfo = << >>
    /\ cycleStartNew = 0
    /\ cycleStartInfo = << >>
    /\ earlyExit = FALSE
    /\ run = 1
    /\ firstTotal = 0
    /\ firstInfo = << >>
    /\ lowered = {}

\* line 9
InitialHealthCheck ==
    /\ pc = "hc0"
    /\ \E ok \in BOOLEAN :
        /\ log' = Append(log, Ev("hc", NoName, 0, ok))
        /\ Goto(ok, "args", "hc0")
    /\ UNCHANGED <<envVars, declared, exists, scriptVars, current_new_replicas, planVars, cycleVars, readNew>>

\* lines 11-24
ParseArgs ==
    /\ pc = "args"
    /\ target_master_replicas' = IF IsInt(argv2) THEN ToInt(argv2) ELSE target_master_replicas
    /\ Goto(IsInt(argv2), "apply", "args")
    /\ UNCHANGED <<envVars, declared, exists, argv2, current_new_replicas, planVars, cycleVars, log, readNew>>

\* line 30
ApplyManifest ==
    /\ pc = "apply"
    /\ \E ok \in BOOLEAN :
        /\ exists' = IF ok THEN ApplyPoolManifest(exists) ELSE exists
        /\ log' = Append(log, Ev("apply", new_machineset_name, 0, ok))
        /\ Goto(ok, "readNew", "apply")
    /\ UNCHANGED <<envVars, declared, scriptVars, current_new_replicas, planVars, cycleVars, readNew>>

\* lines 34-35
ReadNewReplicas ==
    /\ pc = "readNew"
    /\ \E r \in ReplicaReadResults(final_machine_set_path) :
        /\ current_new_replicas' = r
        /\ readNew' = r
        /\ log' = Append(log, Ev("get", PoolOf(final_machine_set_path), r, r # None))
        /\ pc' = IF NeedsReset(r) THEN "scaleZero" ELSE "list"
    /\ UNCHANGED <<envVars, declared, exists, scriptVars, planVars, cycleVars, abortedAt>>

\* line 37
ScaleNewToZero ==
    /\ pc = "scaleZero"
    /\ \E ok \in BOOLEAN :
        /\ declared' = IF ok THEN SetReplicaCount(declared, final_machine_set_path, 0) ELSE declared
        /\ log' = Append(log, Ev("scale", PoolOf(final_machine_set_path), 0, ok))
        /\ Goto(ok, "waitZero", "scaleZero")
    /\ UNCHANGED <<envVars, exists, scriptVars, current_new_replicas, planVars, cycleVars, readNew>>

\* lines 38-39
WaitNewZero ==
    /\ pc = "waitZero"
    /\ \E ok \in BOOLEAN :
        /\ current_new_replicas' = IF ok THEN 0 ELSE current_new_replicas
        /\ log' = Append(log, Ev("waitDeletion", PoolOf(final_machine_set_path), 0, ok))
        /\ Goto(ok, "list", "waitZero")
    /\ UNCHANGED <<envVars, declared, exists, scriptVars, planVars, cycleVars, readNew>>

\* lines 45-47
ListMachinesets ==
    /\ pc = "list"
    /\ \E ok \in BOOLEAN :
        /\ all_machinesets_names' = IF ok THEN ListPools ELSE all_machinesets_names
        /\ msIdx' = IF ok THEN 1 ELSE msIdx
        /\ log' = Append(log, Ev("list", NoName, 0, ok))
        /\ Goto(ok, IF Len(ListPools) = 0 THEN "plan" ELSE "discover", "list")
        /\ original_master_machinesets_info' = IF ok THEN << >> ELSE original_master_machinesets_info
        /\ total_current_old_masters' = IF ok THEN 0 ELSE total_current_old_masters
    /\ UNCHANGED <<envVars, declared, exists, scriptVars, current_new_replicas, num_replacement_cycles,
                   initialInfo, cycleVars, readNew>>

\* lines 49-64, one iteration
Discover ==
    /\ pc = "discover"
    /\ msIdx <= Len(all_machinesets_names)
    /\ LET ms_name == all_machinesets_names[msIdx] IN
        IF ms_name = NoName \/ SkipPool(ms_name)
        THEN UNCHANGED <<original_master_machinesets_info, total_current_old_masters, log>>
        ELSE \E r \in ReplicaReadResults(ms_name) :
            LET counted == IntOk(r) /\ r > 0 IN
            /\ original_master_machinesets_info' =
                   IF counted
                   THEN Append(original_master_machinesets_info, RosterEntry(ms_name, r))
                   ELSE original_master_machinesets_info
            /\ total_current_old_masters' =
                   IF counted THEN total_current_old_masters + r ELSE total_current_old_masters
            /\ log' = Append(log, Ev("get", PoolOf(ms_name), r, r # None))
    /\ msIdx' = msIdx + 1
    /\ pc' = IF msIdx = Len(all_machinesets_names) THEN "plan" ELSE "discover"
    /\ UNCHANGED <<envVars, declared, exists, scriptVars, current_new_replicas, all_machinesets_names,
                   num_replacement_cycles, initialInfo, cycleVars, abortedAt, readNew>>

\* lines 66-79
Plan ==
    /\ pc = "plan"
    /\ num_replacement_cycles' =
           IF original_master_machinesets_info = << >>
           THEN num_replacement_cycles
           ELSE NumCycles(total_current_old_masters)
    /\ pc' = PlanOutcome(original_master_machinesets_info, NumCycles(total_current_old_masters))
    /\ initialInfo' = original_master_machinesets_info
    /\ UNCHANGED <<envVars, declared, exists, scriptVars, current_new_replicas, all_machinesets_names,
                   msIdx, original_master_machinesets_info, total_current_old_masters,
                   cycleVars, log, abortedAt, readNew>>

\* line 82
LoopHead ==
    /\ pc = "loopHead"
    /\ pc' = IF i < num_replacement_cycles THEN "scaleUp" ELSE "hcFinal"
    /\ cycleStartNew' = current_new_replicas
    /\ cycleStartInfo' = original_master_machinesets_info
    /\ UNCHANGED <<envVars, declared, exists, scriptVars, current_new_replicas, planVars, i,
                   old_machineset_to_decrement, earlyExit, log, abortedAt, readNew>>

\* lines 87-88
ScaleUp ==
    /\ pc = "scaleUp"
    /\ current_new_replicas' = Incremented(current_new_replicas)
    /\ \E ok \in BOOLEAN :
        /\ declared' = IF ok
                       THEN SetReplicaCount(declared, final_machine_set_path, current_new_replicas')
                       ELSE declared
        /\ log' = Append(log, Ev("scale", PoolOf(final_machine_set_path), current_new_replicas', ok))
        /\ Goto(ok, AfterScaleUp, "scaleUp")
    /\ UNCHANGED <<envVars, exists, scriptVars, planVars, cycleVars, readNew>>

\* line 90
WaitUp ==
    /\ pc = "waitUp"
    /\ \E ok \in BOOLEAN :
        /\ log' = Append(log, Ev("waitCreation", new_machineset_name, current_new_replicas, ok))
        /\ Goto(ok, AfterWaitUp, "waitUp")
    /\ UNCHANGED <<envVars, declared, exists, scriptVars, current_new_replicas, planVars, cycleVars, readNew>>

\* line 92
HealthCheckUp ==
    /\ pc = "hcUp"
    /\ \E ok \in BOOLEAN :
        /\ log' = Append(log, Ev("hc", NoName, 0, ok))
        /\ Goto(ok, AfterHcUp, "hcUp")
    /\ UNCHANGED <<envVars, declared, exists, scriptVars, current_new_replicas, planVars, cycleVars, readNew>>

\* lines 95-107
Pick ==
    /\ pc = "pick"
    /\ LET k == FirstActive(original_master_machinesets_info) IN
        /\ old_machineset_to_decrement' = k
        /\ earlyExit' = (k = 0)
        /\ pc' = IF k = 0 THEN "hcFinal" ELSE "scaleDown"
        /\ original_master_machinesets_info' =
               IF k = 0 THEN original_master_machinesets_info
               ELSE Decremented(original_master_machinesets_info, k)
    /\ UNCHANGED <<envVars, declared, exists, scriptVars, current_new_replicas, all_machinesets_names,
                   msIdx, total_current_old_masters, num_replacement_cycles, initialInfo,
                   i, cycleStartNew, cycleStartInfo, log, abortedAt, readNew>>

\* line 110
ScaleDown ==
    /\ pc = "scaleDown"
    /\ \E ok \in BOOLEAN :
        /\ declared' = IF ok
                       THEN SetReplicaCount(declared, old_ms_name, new_old_replicas_count)
                       ELSE declared
        /\ log' = Append(log, Ev("scale", PoolOf(old_ms_name), new_old_replicas_count, ok))
        /\ Goto(ok, AfterScaleDown, "scaleDown")
    /\ UNCHANGED <<envVars, exists, scriptVars, current_new_replicas, planVars, cycleVars, readNew>>

\* line 112
WaitDown ==
    /\ pc = "waitDown"
    /\ \E ok \in BOOLEAN :
        /\ log' = Append(log, Ev("waitDeletion", PoolOf(old_ms_name), new_old_replicas_count, ok))
        /\ Goto(ok, AfterWaitDown, "waitDown")
    /\ UNCHANGED <<envVars, declared, exists, scriptVars, current_new_replicas, planVars, cycleVars, readNew>>

\* line 114, and the step of the loop of line 82
HealthCheckDown ==
    /\ pc = "hcDown"
    /\ \E ok \in BOOLEAN :
        /\ log' = Append(log, Ev("hc", NoName, 0, ok))
        /\ i' = IF ok THEN i + 1 ELSE i
        /\ Goto(ok, "loopHead", "hcDown")
    /\ UNCHANGED <<envVars, declared, exists, scriptVars, current_new_replicas, planVars,
                   old_machineset_to_decrement, cycleStartNew, cycleStartInfo, earlyExit, readNew>>

\* line 118
FinalHealthCheck ==
    /\ pc = "hcFinal"
    /\ \E ok \in BOOLEAN :
        /\ log' = Append(log, Ev("hc", NoName, 0, ok))
        /\ Goto(ok, "done", "hcFinal")
    /\ UNCHANGED <<envVars, declared, exists, scriptVars, current_new_replicas, planVars, cycleVars, readNew>>

Next ==
    \/ InitialHealthCheck
    \/ ParseArgs
    \/ ApplyManifest
    \/ ReadNewReplicas
    \/ ScaleNewToZero
    \/ WaitNewZero
    \/ ListMachinesets
    \/ Discover
    \/ Plan
    \/ LoopHead
    \/ ScaleUp
    \/ WaitUp
    \/ HealthCheckUp
    \/ Pick
    \/ ScaleDown
    \/ WaitDown
    \/ HealthCheckDown
    \/ FinalHealthCheck

Spec == Init /\ [][Next]_vars

\* the script is started again after an abort, with the same arguments, on the
\* cluster as the aborted run left it (lines 1-9: nothing is kept between runs)
Rerun ==
    /\ pc = "aborted"
    /\ run < MaxRuns
    /\ run' = run + 1
    /\ firstTotal' = IF run = 1 THEN total_current_old_masters ELSE firstTotal
    /\ firstInfo' = IF run = 1 THEN initialInfo ELSE firstInfo
    /\ pc' = "hc0"
    /\ target_master_replicas' = 0
    /\ current_new_replicas' = None
    /\ all_machinesets_names' = << >>
    /\ msIdx' = 0
    /\ original_master_machinesets_info' = << >>
    /\ total_current_old_masters' = 0
    /\ num_replacement_cycles' = 0
    /\ i' = 0
    /\ old_machineset_to_decrement' = 0
    /\ log' = << >>
    /\ abortedAt' = "none"
    /\ readNew' = None
    /\ initialInfo' = << >>
    /\ cycleStartNew' = 0
    /\ cycleStartInfo' = << >>
    /\ earlyExit' = FALSE
    /\ UNCHANGED <<declared, exists, argv2, lowered>>

NextRerun == Next \/ Rerun

\* an operator lowers the declared count of a source pool by hand while the
\* replacement loop runs
Operator ==
    /\ pc \in {"loopHead", "scaleUp", "waitUp", "hcUp", "pick", "scaleDown", "waitDown", "hcDown"}
    /\ Cardinality(lowered) < MaxInterventions
    /\ \E p \in SourcePools \ lowered : \E n \in 0..(declared[p] - 1) :
        /\ declared' = [declared EXCEPT ![p] = n]
        /\ lowered' = lowered \cup {p}
    /\ UNCHANGED <<pc, exists, scriptVars, current_new_replicas, planVars, cycleVars,
                   log, abortedAt, readNew, run, firstTotal, firstInfo>>

NextOperator == Next \/ Operator

SpecOperator == Init /\ [][NextOperator]_vars

\* the script is a sequential program: while it has not ended its next
\* statement is executed, every gateway call returning or raising
SpecLive == Spec /\ WF_vars(Next)

SpecRerun == Init /\ [][NextRerun]_vars

TypeOK ==
    /\ pc \in {"hc0", "args", "apply", "readNew", "scaleZero", "waitZero", "list", "discover",
               "plan", "loopHead", "scaleUp", "waitUp", "hcUp", "pick", "scaleDown", "waitDown",
               "hcDown", "hcFinal", "done", "exit0", "exit1", "aborted"}
    /\ \A p \in Pools : declared[p] \in Nat
    /\ current_new_replicas \in Nat \cup {None}
    /\ i \in Nat

(* ---- what the history shows ---- *)

IsScale(e) == e.op = "scale"

IsHc(e) == e.op = "hc"

IsSourceScale(e) == e.op = "scale" /\ e.pool # new_machineset_name

IsNewScale(e) == e.op = "scale" /\ e.pool = new_machineset_name

ScaleCmds == SelectSeq(log, IsScale)

SourceScaleCmds == SelectSeq(log, IsSourceScale)

CycleSteps == {"loopHead", "scaleUp", "waitUp", "hcUp", "pick", "scaleDown", "waitDown", "hcDown"}

Terminated == pc \in {"done", "exit0", "exit1", "aborted"}

\* the replacement loop has been entered (and perhaps left, or aborted)
CyclingStarted ==
    \/ pc \in CycleSteps \cup {"hcFinal", "done"}
    \/ pc = "aborted" /\ abortedAt \in CycleSteps \cup {"hcFinal"}

\* the loop is at its head, or was left through its end or its break
AtCycleBoundary ==
    \/ pc \in {"loopHead", "hcFinal", "done"}
    \/ pc = "aborted" /\ abortedAt = "hcFinal"

RECURSIVE SumDeclared(_)
SumDeclared(info) ==
    IF info = << >> THEN 0
    ELSE declared[PoolOf(info[1].name)] + SumDeclared(Tail(info))

DeclaredMasters == declared[new_machineset_name] + SumDeclared(initialInfo)

NoFailure == \A j \in 1..Len(log) : log[j].ok

ListDone == \E j \in 1..Len(log) : log[j].op = "list"

ListPos == CHOOSE j \in 1..Len(log) : log[j].op = "list"

\* the calls made after the listing of the machinesets
CyclingLog == IF ListDone THEN SubSeq(log, ListPos + 1, Len(log)) ELSE << >>

(* C1: at every boundary of the replacement loop (its head before each cycle
   and after each completed one, and after the loop is left) the target
   counter plus the sum of the roster's remaining counters equals
   total_current_old_masters, which is the sum of the replica counts that
   discovery put in the roster. *)
C1_Conservation ==
    AtCycleBoundary =>
        /\ total_current_old_masters = SumReplicas(initialInfo)
        /\ current_new_replicas + SumReplicas(original_master_machinesets_info)
               = total_current_old_masters

C1_Witness ==
    /\ pc = "loopHead"
    /\ i >= 1
    /\ i < num_replacement_cycles
    /\ Len(original_master_machinesets_info) >= 2

(* C2: from the start of the first cycle to the end of the run, aborted runs
   included, the declared replicas of the target pool plus those of the
   roster's source pools are at least total_current_old_masters and at most
   one more. *)
C2_NeverBelowOriginal ==
    CyclingStarted =>
        /\ DeclaredMasters >= total_current_old_masters
        /\ DeclaredMasters <= total_current_old_masters + 1

C2_Witness ==
    /\ pc = "aborted"
    /\ abortedAt = "waitDown"
    /\ i >= 1
    /\ DeclaredMasters = total_current_old_masters

(* C3: a scale command to a source pool directly follows the successful
   scale-up of the target pool, the successful readiness wait for that count
   and a successful health check; and every scale-up after the first one
   directly follows a successful scale-down, its successful drain wait and a
   successful health check.  Stated of the last call of the history: every
   call is the last one in the state that follows it. *)
C3_StrictOrder ==
    LET j == Len(log) IN
    j >= 1 =>
        /\ IsSourceScale(log[j]) =>
               /\ j >= 4
               /\ IsNewScale(log[j - 3]) /\ log[j - 3].ok /\ log[j - 3].n >= 1
               /\ log[j - 2] = Ev("waitCreation", new_machineset_name, log[j - 3].n, TRUE)
               /\ log[j - 1] = Ev("hc", NoName, 0, TRUE)
        /\ (IsNewScale(log[j]) /\ log[j].n >= 2) =>
               /\ j >= 4
               /\ IsSourceScale(log[j - 3]) /\ log[j - 3].ok
               /\ log[j - 2] = Ev("waitDeletion", log[j - 3].pool, log[j - 3].n, TRUE)
               /\ log[j - 1] = Ev("hc", NoName, 0, TRUE)

C3_Witness ==
    /\ pc = "waitDown"
    /\ i >= 1

(* C4: when a cycle has completed, the target counter is one more than at the
   start of the cycle, exactly one roster entry has changed, its remaining
   count is one less, it is the earliest entry that had replicas left when
   the scale-down step began, and the scale command of the cycle's scale-down
   went to that pool with the new remaining count. *)
C4_OneStepPerCycle ==
    (pc = "loopHead" /\ i >= 1) =>
        /\ current_new_replicas = cycleStartNew + 1
        /\ Len(original_master_machinesets_info) = Len(cycleStartInfo)
        /\ \E k \in 1..Len(cycleStartInfo) :
               /\ cycleStartInfo[k].current_replicas > 0
               /\ \A j \in 1..(k - 1) : cycleStartInfo[j].current_replicas = 0
               /\ original_master_machinesets_info[k].name = cycleStartInfo[k].name
               /\ original_master_machinesets_info[k].current_replicas
                      = cycleStartInfo[k].current_replicas - 1
               /\ \A j \in 1..Len(cycleStartInfo) :
                      j # k => original_master_machinesets_info[j] = cycleStartInfo[j]
               /\ Len(log) >= 3
               /\ log[Len(log) - 2] =
                      Ev("scale", PoolOf(cycleStartInfo[k].name),
                         original_master_machinesets_info[k].current_replicas, TRUE)

C4_Witness ==
    /\ pc = "loopHead"
    /\ i >= 2
    /\ Len(original_master_machinesets_info) >= 2
    /\ original_master_machinesets_info[1].current_replicas = 0
    /\ original_master_machinesets_info[2].current_replicas
           < initialInfo[2].current_replicas

\* the last count a scale command set on the pool, None when there was none
LastCountSet(pool) ==
    IF \E j \in 1..Len(ScaleCmds) : ScaleCmds[j].pool = pool
    THEN LET last == CHOOSE j \in 1..Len(ScaleCmds) :
                        /\ ScaleCmds[j].pool = pool
                        /\ \A m \in (j + 1)..Len(ScaleCmds) : ScaleCmds[m].pool # pool
         IN ScaleCmds[last].n
    ELSE None

(* C5: a run with a numeric requested count in which no gateway call fails
   does not abort, executes exactly total_current_old_masters cycles whatever
   count was requested, and ends with the target pool at
   total_current_old_masters replicas and every roster entry, and the last
   count set on its pool, at 0. *)
C5_FullReplacement ==
    (Terminated /\ NoFailure /\ IsInt(argv2)) =>
        /\ pc # "aborted"
        /\ ~earlyExit
        /\ i = total_current_old_masters
        /\ Len(SelectSeq(CyclingLog, IsNewScale)) = total_current_old_masters
        /\ Len(SourceScaleCmds) = total_current_old_masters
        /\ declared[new_machineset_name] = total_current_old_masters
        /\ \A k \in 1..Len(original_master_machinesets_info) :
               /\ original_master_machinesets_info[k].current_replicas = 0
               /\ declared[PoolOf(original_master_machinesets_info[k].name)] = 0
               /\ LastCountSet(PoolOf(original_master_machinesets_info[k].name)) = 0

C5_Witness ==
    /\ pc = "done"
    /\ NoFailure
    /\ target_master_replicas = 2
    /\ total_current_old_masters >= 3
    /\ Len(initialInfo) >= 2

\* the roster is drained in its order: entries before a split point are empty,
\* entries after it untouched
DrainedInOrder(info, initial) ==
    /\ Len(info) = Len(initial)
    /\ \E m \in 1..(Len(info) + 1) :
           \A k \in 1..Len(info) :
               /\ info[k].name = initial[k].name
               /\ k < m => info[k].current_replicas = 0
               /\ k = m => /\ info[k].current_replicas > 0
                           /\ info[k].current_replicas <= initial[k].current_replicas
               /\ k > m => info[k].current_replicas = initial[k].current_replicas

InitialCounts == [k \in 1..Len(initialInfo) |-> initialInfo[k].current_replicas]

DownTargets == [k \in 1..Len(SourceScaleCmds) |-> SourceScaleCmds[k].pool]

(* C6: source pools are drained one at a time in roster order: in every state
   of the loop at most one roster entry is partly drained, the entries before
   it are at 0 and the entries after it at their initial count; a roster with
   replicas 2,1,2 is replaced in 5 cycles whose scale-downs go to pool 1,
   pool 1, pool 2, pool 3, pool 3. *)
C6_RosterOrder ==
    /\ CyclingStarted =>
           /\ DrainedInOrder(original_master_machinesets_info, initialInfo)
           /\ Cardinality({k \in 1..Len(initialInfo) :
                              /\ original_master_machinesets_info[k].current_replicas > 0
                              /\ original_master_machinesets_info[k].current_replicas
                                     < initialInfo[k].current_replicas}) <= 1
    /\ (pc = "done" /\ InitialCounts = <<2, 1, 2>>) =>
           /\ i = 5
           /\ DownTargets = <<PoolOf(initialInfo[1].name), PoolOf(initialInfo[1].name),
                              PoolOf(initialInfo[2].name), PoolOf(initialInfo[3].name),
                              PoolOf(initialInfo[3].name)>>

C6_Witness ==
    /\ pc = "done"
    /\ InitialCounts = <<2, 1, 2>>
    /\ Len(DownTargets) = 5

(* C7: when the health check after the scale-up of cycle k fails the run is
   over: the target pool stays at k replicas, the roster is as it was at the
   start of the cycle, cycles 1..k-1 are the only ones with a scale-down, and
   the failed health check is the last call of the run. *)
C7_AbortAfterScaleUp ==
    abortedAt = "hcUp" =>
        /\ pc = "aborted"
        /\ current_new_replicas = i + 1
        /\ declared[new_machineset_name] = i + 1
        /\ original_master_machinesets_info = cycleStartInfo
        /\ Len(SourceScaleCmds) = i
        /\ log[Len(log)] = Ev("hc", NoName, 0, FALSE)
        /\ log[Len(log) - 2] = Ev("scale", new_machineset_name, i + 1, TRUE)
        /\ ScaleCmds[Len(ScaleCmds)] = Ev("scale", new_machineset_name, i + 1, TRUE)

C7_Witness ==
    /\ pc = "aborted"
    /\ abortedAt = "hcUp"
    /\ i = 2

\* discovery has finished and the plan is made
PlanMade ==
    \/ pc \in CycleSteps \cup {"hcFinal", "done", "exit0", "exit1"}
    \/ pc = "aborted" /\ abortedAt \in CycleSteps \cup {"hcFinal"}

(* C8, as stated: with an empty roster the run ends in Done, with zero
   cycles and without any scale command in the whole run. *)
C8_AsClaimed ==
    (PlanMade /\ initialInfo = << >>) =>
        /\ pc = "done"
        /\ i = 0
        /\ ScaleCmds = << >>

(* C8: with an empty roster the run ends at once with exit status 1, without
   a final health check and with zero cycles; no scale command goes to a
   source pool, and the only scale command of the run is the one of the
   preparation that sets the target pool to 0, issued exactly when the count
   read for the target pool was unknown or greater than 0. *)
C8_EmptyRosterExit ==
    (PlanMade /\ initialInfo = << >>) =>
        /\ pc = "exit1"
        /\ i = 0
        /\ current_new_replicas = 0
        /\ Len(SelectSeq(log, IsHc)) = 1
        /\ ScaleCmds = IF readNew = None \/ readNew > 0
                       THEN <<Ev("scale", new_machineset_name, 0, TRUE)>>
                       ELSE << >>

C8_Witness ==
    /\ pc = "exit1"
    /\ initialInfo = << >>
    /\ ScaleCmds # << >>

(* C9: when the count read for the target pool is unknown or greater than 0,
   the preparation issues one scale command, to 0, and its drain wait has
   completed before the machinesets are listed; when the count read is 0 the
   preparation issues no scale command.  Either way the target counter is 0
   when the loop starts and the first scale command after the preparation
   sets the target pool to 1, whatever count was requested. *)
C9_ZeroStart ==
    LET n == Len(log) IN
    /\ (n >= 1 /\ log[n].op = "list") =>
           LET prep == SelectSeq(SubSeq(log, 1, n - 1), IsScale) IN
           /\ readNew \in {None} \cup Nat
           /\ (readNew = None \/ readNew > 0) =>
                  /\ prep = <<Ev("scale", new_machineset_name, 0, TRUE)>>
                  /\ log[n - 1] = Ev("waitDeletion", new_machineset_name, 0, TRUE)
                  /\ log[n - 2] = Ev("scale", new_machineset_name, 0, TRUE)
           /\ readNew = 0 => prep = << >>
    /\ (pc = "loopHead" /\ i = 0) => current_new_replicas = 0
    /\ (n >= 1 /\ IsScale(log[n]) /\ Len(SelectSeq(CyclingLog, IsScale)) = 1) =>
           /\ log[n].pool = new_machineset_name
           /\ log[n].n = 1

C9_Witness ==
    /\ pc = "waitUp"
    /\ i = 0
    /\ readNew = 2
    /\ target_master_replicas = 2
    /\ total_current_old_masters >= 3

\* the number of scale commands among the calls j, j-1, ... of the history
\* that follow the latest health check at or before j; None without one
RECURSIVE ScalesSinceCheck(_)
ScalesSinceCheck(j) ==
    IF j = 0 THEN None
    ELSE IF IsHc(log[j]) THEN 0
    ELSE LET r == ScalesSinceCheck(j - 1) IN
         IF r = None THEN None
         ELSE IF IsScale(log[j]) THEN r + 1 ELSE r

LastIsCheck == Len(log) >= 1 /\ IsHc(log[Len(log)])

(* C10, as stated: over the whole run no more than one scale command is
   issued between two consecutive health checks (stated when the later of
   the two has just been made). *)
C10_AsClaimed ==
    LastIsCheck => ScalesSinceCheck(Len(log) - 1) <= 1

(* C10: no more than one scale command is issued between two consecutive
   health checks, except between the initial health check and the health
   check of the first scale-up: there the scale of the target pool to 0 made
   by the preparation and the first scale-up of the target pool to 1 may both
   be issued, with no health check between them. *)
C10_OneChangePerCheck ==
    LastIsCheck =>
        \/ ScalesSinceCheck(Len(log) - 1) <= 1
        \/ /\ ScalesSinceCheck(Len(log) - 1) = 2
           /\ IsHc(log[1])
           /\ Len(SelectSeq(log, IsHc)) = 2
           /\ ScaleCmds = <<Ev("scale", new_machineset_name, 0, TRUE),
                            Ev("scale", new_machineset_name, 1, TRUE)>>

C10_Witness ==
    /\ LastIsCheck
    /\ ScalesSinceCheck(Len(log) - 1) = 2
    /\ pc = "pick"

LastIsNewScale == Len(log) >= 1 /\ IsNewScale(log[Len(log)])

(* C11: the counts sent to the target pool by the scale commands of the loop
   are 1, 2, 3, ... in this order, on every path: the k-th such command
   carries k.  Stated of the last call of the history. *)
C11_TargetCountsAscend ==
    (LastIsNewScale /\ ListDone) =>
        log[Len(log)].n = Len(SelectSeq(CyclingLog, IsNewScale))

C11_Witness ==
    /\ LastIsNewScale
    /\ ListDone
    /\ log[Len(log)].n = 3
    /\ ~log[Len(log)].ok

\* the pools of the listing, in its order, without the empty lines
ListedPools == [k \in 1..(Len(ListPools) - 1) |-> PoolOf(ListPools[k])]

\* the replica reads of the discovery, in their order
DiscoveryReads == SelectSeq(CyclingLog, LAMBDA e : e.op = "get")

ReadOf(pool) == SelectSeq(DiscoveryReads, LAMBDA e : e.pool = pool)

\* a pool that the discovery has to consider: neither the target pool nor an
\* infrastructure pool
IsCandidate(pool) == pool # new_machineset_name /\ pool # InfraPool

\* a candidate pool whose read succeeded with a count greater than 0
IsEligible(pool) ==
    /\ IsCandidate(pool)
    /\ Len(ReadOf(pool)) = 1
    /\ ReadOf(pool)[1].ok
    /\ ReadOf(pool)[1].n > 0

EligibleEntry(pool) == RosterEntry(ListedName(pool), ReadOf(pool)[1].n)

RECURSIVE EligibleRoster(_)
EligibleRoster(pools) ==
    IF pools = << >> THEN << >>
    ELSE (IF IsEligible(pools[1]) THEN <<EligibleEntry(pools[1])>> ELSE << >>)
         \o EligibleRoster(Tail(pools))

(* C12: when the plan is made the roster is exactly the listed pools, in the
   order of the listing, that are neither the target pool nor an
   infrastructure pool and whose replica count was read successfully and is
   greater than 0: every such candidate pool was read, once, a failed read
   drops only that pool, and total_current_old_masters is the sum of the
   roster's initial counts. *)
C12_RosterAsClaimed ==
    PlanMade =>
        /\ \A k \in 1..Len(ListedPools) :
               IsCandidate(ListedPools[k]) => Len(ReadOf(ListedPools[k])) = 1
        /\ initialInfo = EligibleRoster(ListedPools)
        /\ total_current_old_masters = SumReplicas(initialInfo)

\* a call other than a replica read has failed
FatalFailure(e) == ~e.ok /\ e.op # "get"

(* C13: a failed apply, listing, scale command, readiness or drain wait, or
   health check ends the run at once: the step that records the failed call
   leaves the script aborted with the cluster as it was before the call, and
   an aborted script makes no further call and changes nothing.  A replica
   read that fails is not such a failure: in the discovery the pool is
   skipped, and for the target pool the script scales to 0. *)
C13_FailFast ==
    /\ [][(log' # log /\ FatalFailure(log'[Len(log')])) =>
              /\ pc' = "aborted"
              /\ declared' = declared
              /\ exists' = exists]_vars
    /\ [][pc = "aborted" => (log' = log /\ declared' = declared /\ exists' = exists)]_vars
    /\ []((Len(log) >= 2 /\ FatalFailure(log[Len(log) - 1])) => FALSE)

C13_Witness ==
    /\ pc = "aborted"
    /\ abortedAt = "waitDown"
    /\ i >= 1
    /\ declared[new_machineset_name] = i + 1

\* the roster and the master count of the first run
OriginalInfo == IF run = 1 THEN initialInfo ELSE firstInfo

OriginalMasters ==
    IF run = 1 THEN (IF PlanMade THEN total_current_old_masters ELSE 0) ELSE firstTotal

(* C14: over an aborted run and the runs that follow it, the declared
   replicas of the target pool plus those of the source pools of the first
   run's roster never fall below the master count of the first run. *)
C14_RerunAsClaimed ==
    declared[new_machineset_name] + SumDeclared(OriginalInfo) >= OriginalMasters

(* C15: the break of line 103 is never taken: at the scale-down step of every
   cycle some roster entry has replicas left, exactly
   total_current_old_masters minus the completed cycles of them in all, and
   once the loop is left every scale-up of the loop has its scale-down. *)
C15_NoEarlyExit ==
    /\ ~earlyExit
    /\ pc = "pick" =>
           /\ \E k \in 1..Len(original_master_machinesets_info) :
                  original_master_machinesets_info[k].current_replicas > 0
           /\ SumReplicas(original_master_machinesets_info) = num_replacement_cycles - i
           /\ i < num_replacement_cycles
    /\ pc \in {"hcFinal", "done"} =>
           Len(SelectSeq(CyclingLog, IsNewScale)) = Len(SourceScaleCmds)

C15_Witness ==
    /\ pc = "pick"
    /\ i = num_replacement_cycles - 1
    /\ i >= 2
    /\ SumReplicas(original_master_machinesets_info) = 1

\* the roster entries whose pool does not have the count the plan holds for it
RosterDiffers ==
    {k \in 1..Len(original_master_machinesets_info) :
        declared[PoolOf(original_master_machinesets_info[k].name)]
            # original_master_machinesets_info[k].current_replicas}

\* 1 when the target pool does not have the count the plan holds for it
TargetDiffers == IF declared[new_machineset_name] # current_new_replicas THEN 1 ELSE 0

(* C16: with the script as the only writer, at every boundary of the loop the
   target pool has current_new_replicas declared replicas and every roster
   pool has its entry's current_replicas; inside a cycle, and after an abort
   inside one, at most one pool differs, the one of the scale command that is
   being made or has failed. *)
C16_PlanTracksCluster ==
    /\ AtCycleBoundary => (TargetDiffers = 0 /\ RosterDiffers = {})
    /\ CyclingStarted => TargetDiffers + Cardinality(RosterDiffers) <= 1
    /\ (pc = "scaleDown" \/ (pc = "aborted" /\ abortedAt = "scaleDown")) =>
           (TargetDiffers = 0 /\ RosterDiffers = {old_machineset_to_decrement})
    /\ (pc = "aborted" /\ abortedAt = "scaleUp") =>
           (TargetDiffers = 1 /\ RosterDiffers = {})

C16_Witness ==
    /\ pc = "scaleDown"
    /\ i >= 1
    /\ old_machineset_to_decrement = 2
    /\ RosterDiffers = {2}

\* the index of the roster entry of a pool
EntryOf(pool) ==
    CHOOSE k \in 1..Len(cycleStartInfo) : PoolOf(cycleStartInfo[k].name) = pool

(* C17, as stated: with an operator lowering source pools during the run,
   every scale command to a source pool sets a count lower than the count the
   pool has when the command is issued. *)
C17_AsClaimed ==
    [][(log' # log /\ IsSourceScale(log'[Len(log')])) =>
          log'[Len(log')].n < declared[log'[Len(log')].pool]]_vars

(* C17: with an operator lowering source pools during the run, every scale
   command to a source pool sets the count one below the count the script
   holds for that pool, whatever the pool has by then: the count is lower
   than the pool's count when the command is issued if the operator has not
   lowered that pool, otherwise the command may leave the count as it is or
   raise it. *)
C17_TrackedCountSent ==
    [][(log' # log /\ IsSourceScale(log'[Len(log')])) =>
          LET e == log'[Len(log')] IN
          /\ e.n = cycleStartInfo[EntryOf(e.pool)].current_replicas - 1
          /\ e.n >= 0
          /\ e.pool \notin lowered => e.n < declared[e.pool]]_vars

C17_Witness ==
    /\ pc = "waitDown"
    /\ log[Len(log)].pool \in lowered
    /\ declared[log[Len(log)].pool] = 1
    /\ i = 0

\* the initial health check was made and passed
InitialCheckPassed == Len(log) >= 1 /\ IsHc(log[1]) /\ log[1].ok

(* C18: the first call of a run is the cluster health check, and nothing is
   applied or scaled (no pool is created, no declared count changes) unless
   that check has passed; a run that fails it makes no other call and ends;
   a run whose loop has completed makes, after the health check that follows
   the last scale command, one more health check. *)
C18_CheckedBeforeAndAfter ==
    /\ [](Len(log) >= 1 => IsHc(log[1]))
    /\ [](Len(log) >= 2 => log[1].ok)
    /\ [][(declared' # declared \/ exists' # exists) => InitialCheckPassed]_vars
    /\ []((Len(log) >= 1 /\ ~log[1].ok) =>
              (pc = "aborted" /\ abortedAt = "hc0" /\ Len(log) = 1))
    /\ []((pc = "done" \/ (pc = "aborted" /\ abortedAt = "hcFinal")) =>
              /\ Len(log) >= 3
              /\ IsHc(log[Len(log)])
              /\ IsHc(log[Len(log) - 1]) /\ log[Len(log) - 1].ok
              /\ IsScale(log[Len(log) - 3]))

C18_Witness ==
    /\ pc = "done"
    /\ total_current_old_masters >= 2
    /\ declared[new_machineset_name] = total_current_old_masters
    /\ log[Len(log)].ok

LastIsScale == Len(log) >= 1 /\ IsScale(log[Len(log)])

(* C19: every run ends (completed, exited or aborted) when every gateway call
   returns or fails; it completes at most total_current_old_masters cycles,
   and the loop issues at most total_current_old_masters scale commands to
   the target pool and at most as many to the source pools (counted when a
   scale command has just been issued). *)
C19_TerminatesWithinBound ==
    /\ <>Terminated
    /\ [](PlanMade => i <= total_current_old_masters)
    /\ []((LastIsScale /\ ListDone) =>
              /\ Len(SelectSeq(CyclingLog, IsNewScale)) <= total_current_old_masters
              /\ Len(SelectSeq(CyclingLog, IsSourceScale)) <= total_current_old_masters)

C19_Witness ==
    /\ pc = "done"
    /\ total_current_old_masters >= 3
    /\ i = total_current_old_masters
    /\ Len(SelectSeq(CyclingLog, IsNewScale)) = total_current_old_masters
    /\ Len(SelectSeq(CyclingLog, IsSourceScale)) = total_current_old_masters
====
